---- MODULE Spec2Model ----
(***************************************************************************)
(* Waiting-list / queue-promotion subsystem of the gym-management backend. *)
(* The tables waiting_list, enrollment, class_session, members and         *)
(* subscription are the state; every repository method is one action, run  *)
(* to completion, and the methods of the waiting list are also split into  *)
(* their reads and their commit, to let requests overlap.  Time is counted *)
(* in whole hours.  A waiting_list row is identified by its index (the     *)
(* order of creation stands for the random id); enrollment rows, which no  *)
(* operation looks up by id, form a bag.                                   *)
(***************************************************************************)
EXTENDS Integers, Sequences, FiniteSets, Bags, TLC

VARIABLES now, waiting_list, enrollment, class_session, members, subscription, txn

vars == <<now, waiting_list, enrollment, class_session, members, subscription, txn>>

(* ---- bounds of the model ---- *)
MaxWaiting == 3
MaxEnrollment == 2
MaxNow == 48
TickHours == 24
MaxSubscription == 4
MaxElapsedHours == 2

(* ---- program constants ---- *)
approval_deadline_hours == 24
VipBase == 1000
ActiveBase == 100
SecondsPerHour == 3600

\* Python's None / SQL NULL in an integer column
None == 0 - 1

\* ids a request can carry; "s9" and "m9" are ids of no row
SessionIds == {"s1", "s9"}
MemberIds == {"m1", "m2", "m3", "m9"}

Max(a, b) == IF a >= b THEN a ELSE b
Min(a, b) == IF a <= b THEN a ELSE b

RECURSIVE MinOf(_)
MinOf(S) ==
  LET x == CHOOSE y \in S : TRUE
  IN IF S = {x} THEN x ELSE Min(x, MinOf(S \ {x}))

(* ---- queries ---- *)
Waiting(w, sid) ==
  {i \in DOMAIN w : w[i].class_session_id = sid /\ w[i].status = "WAITING"}

Assigned(w, sid) ==
  {i \in DOMAIN w : w[i].class_session_id = sid /\ w[i].status = "ASSIGNED"}

EnrollmentRow(sid, mid, status) ==
  [class_session_id |-> sid, member_id |-> mid, status |-> status]

\* the REGISTERED rows of a session, as a bag
Registered(e, sid) ==
  [r \in {x \in BagToSet(e) : x.class_session_id = sid /\ x.status = "REGISTERED"} |-> e[r]]

\* the number of REGISTERED rows of a member in a session
RegisteredFor(e, sid, mid) == CopiesIn(EnrollmentRow(sid, mid, "REGISTERED"), e)

OpenEntries_WaitingOnly(w, sid, mid) ==
  {i \in DOMAIN w : /\ w[i].class_session_id = sid
                    /\ w[i].member_id = mid
                    /\ w[i].status \in {"WAITING"}}

OpenEntries(w, sid, mid) ==
  {i \in DOMAIN w : /\ w[i].class_session_id = sid
                    /\ w[i].member_id = mid
                    /\ w[i].status \in {"WAITING", "ASSIGNED"}}

(* ---- priority calculator ---- *)
ActiveSubs(mid) ==
  {i \in DOMAIN subscription : /\ subscription[i].member_id = mid
                               /\ subscription[i].status = "ACTIVE"}

BaseScore(plan_type) == IF plan_type = "VIP" THEN VipBase ELSE ActiveBase

\* .first() of an unordered query: any of the member's ACTIVE subscriptions
base_score(mid) ==
  IF ActiveSubs(mid) = {}
  THEN {0}
  ELSE {BaseScore(subscription[i].plan_type) : i \in ActiveSubs(mid)}

\* int(total_seconds / 3600): the quotient, cut towards zero
waiting_time_bonus(seconds) ==
  IF seconds >= 0
  THEN seconds \div SecondsPerHour
  ELSE 0 - ((0 - seconds) \div SecondsPerHour)

\* the clock of the model counts whole hours
calculate_priority_score(mid, created_at, clock) ==
  {b + waiting_time_bonus((clock - created_at) * SecondsPerHour) : b \in base_score(mid)}

(* ---- add ---- *)
FinalPosition_GE(w, sid, priority_score, clock) ==
  LET position == Cardinality(Waiting(w, sid)) + 1
      ahead == {w[i].position : i \in
                 {j \in Waiting(w, sid) : priority_score >= w[j].priority_score}}
  IN MinOf(ahead \cup {position})

FinalPosition(w, sid, priority_score, clock) ==
  LET position == Cardinality(Waiting(w, sid)) + 1
      ahead == {w[i].position : i \in
                 {j \in Waiting(w, sid) :
                    \/ priority_score > w[j].priority_score
                    \/ /\ priority_score = w[j].priority_score
                       /\ clock < w[j].created_at}}
  IN MinOf(ahead \cup {position})

ShiftAfter_Strict(w, sid, final_position) ==
  [i \in DOMAIN w |->
     IF i \in Waiting(w, sid) /\ w[i].position > final_position
     THEN [w[i] EXCEPT !.position = @ + 1]
     ELSE w[i]]

ShiftAfter(w, sid, final_position) ==
  [i \in DOMAIN w |->
     IF i \in Waiting(w, sid) /\ w[i].position >= final_position
     THEN [w[i] EXCEPT !.position = @ + 1]
     ELSE w[i]]

NewEntry_Aged(sid, mid, final_position, priority_score, clock) ==
  [class_session_id |-> sid, member_id |-> mid, status |-> "WAITING",
   position |-> final_position, priority_score |-> priority_score + clock,
   created_at |-> clock, approval_deadline |-> None, assigned_at |-> None,
   confirmed_at |-> None, cancelled_at |-> None]

NewEntry(sid, mid, final_position, priority_score, clock) ==
  [class_session_id |-> sid, member_id |-> mid, status |-> "WAITING",
   position |-> final_position, priority_score |-> priority_score,
   created_at |-> clock, approval_deadline |-> None, assigned_at |-> None,
   confirmed_at |-> None, cancelled_at |-> None]

AddCheck_NoClosed(w, e, sid, mid) ==
  IF sid \notin DOMAIN class_session THEN "NotFoundError"
  ELSE IF mid \notin members THEN "NotFoundError"
  ELSE IF RegisteredFor(e, sid, mid) > 0 THEN "DuplicateError"
  ELSE IF OpenEntries(w, sid, mid) # {} THEN "DuplicateError"
  ELSE "ok"

\* the error add_to_waiting_list raises, or "ok"
AddCheck(w, e, sid, mid) ==
  IF sid \notin DOMAIN class_session THEN "NotFoundError"
  ELSE IF class_session[sid].status = "CLOSED" THEN "AppError"
  ELSE IF mid \notin members THEN "NotFoundError"
  ELSE IF RegisteredFor(e, sid, mid) > 0 THEN "DuplicateError"
  ELSE IF OpenEntries(w, sid, mid) # {} THEN "DuplicateError"
  ELSE "ok"

AddOutcomes_RetCount(w, sid, mid, clock) ==
  {[wl |-> Append(ShiftAfter(w, sid, FinalPosition(w, sid, ps, clock)),
                  NewEntry(sid, mid, FinalPosition(w, sid, ps, clock), ps, clock)),
    ret |-> Cardinality(Waiting(w, sid)) + 1] :
      ps \in calculate_priority_score(mid, clock, clock)}

\* the tables add_to_waiting_list can commit, with the position it returns
AddOutcomes(w, sid, mid, clock) ==
  {[wl |-> Append(ShiftAfter(w, sid, FinalPosition(w, sid, ps, clock)),
                  NewEntry(sid, mid, FinalPosition(w, sid, ps, clock), ps, clock)),
    ret |-> FinalPosition(w, sid, ps, clock)] :
      ps \in calculate_priority_score(mid, clock, clock)}

(* ---- promote ---- *)
Heads(w, sid) ==
  LET minpos == MinOf({w[i].position : i \in Waiting(w, sid)})
  IN {i \in Waiting(w, sid) : w[i].position = minpos}

PromoteEntry_NoShift(w, sid, first_entry, clock) ==
  [i \in DOMAIN w |->
     IF i = first_entry
     THEN [w[i] EXCEPT !.status = "ASSIGNED", !.assigned_at = clock,
                       !.approval_deadline = clock + approval_deadline_hours]
     ELSE w[i]]

PromoteEntry(w, sid, first_entry, clock) ==
  [i \in DOMAIN w |->
     IF i = first_entry
     THEN [w[i] EXCEPT !.status = "ASSIGNED", !.assigned_at = clock,
                       !.approval_deadline = clock + approval_deadline_hours]
     ELSE IF i \in Waiting(w, sid)
     THEN [w[i] EXCEPT !.position = Max(1, @ - 1)]
     ELSE w[i]]

promote_from_queue_LongHold(w, sid, clock) ==
  IF Waiting(w, sid) = {}
  THEN {[wl |-> w, ret |-> None]}
  ELSE {[wl |-> [PromoteEntry(w, sid, h, clock) EXCEPT
                   ![h].approval_deadline = clock + 2 * approval_deadline_hours],
         ret |-> h] : h \in Heads(w, sid)}

\* the tables promote_from_queue can commit, with the entry it returns
promote_from_queue(w, sid, clock) ==
  IF Waiting(w, sid) = {}
  THEN {[wl |-> w, ret |-> None]}
  ELSE {[wl |-> PromoteEntry(w, sid, h, clock), ret |-> h] : h \in Heads(w, sid)}

(* ---- confirm ---- *)
SetStatus(w, ids, status) ==
  [i \in DOMAIN w |-> IF i \in ids THEN [w[i] EXCEPT !.status = status] ELSE w[i]]

DeadlinePassed(entry, clock) ==
  entry.approval_deadline # None /\ clock > entry.approval_deadline

ConfirmCheck_NoStatus(w, wid, clock) ==
  IF wid \notin DOMAIN w THEN "NotFoundError"
  ELSE IF DeadlinePassed(w[wid], clock) THEN "AppError:deadline_passed"
  ELSE "ok"

\* the branch confirm_assignment takes: the error it raises, or "ok"
ConfirmCheck(w, wid, clock) ==
  IF wid \notin DOMAIN w THEN "NotFoundError"
  ELSE IF w[wid].status # "ASSIGNED" THEN "AppError:not_assigned"
  ELSE IF DeadlinePassed(w[wid], clock) THEN "AppError:deadline_passed"
  ELSE "ok"

NewEnrollment(e, sid, mid) == e (+) SetToBag({EnrollmentRow(sid, mid, "REGISTERED")})

CancelRow(e, sid, mid) ==
  (e (-) SetToBag({EnrollmentRow(sid, mid, "REGISTERED")}))
     (+) SetToBag({EnrollmentRow(sid, mid, "CANCELED")})

ConfirmEntry_KeepStatus(w, wid, clock) ==
  [w EXCEPT ![wid].confirmed_at = clock]

ConfirmEntry(w, wid, clock) ==
  [w EXCEPT ![wid].status = "CONFIRMED", ![wid].confirmed_at = clock]

(* ---- sweep ---- *)
\* a NULL approval_deadline never satisfies the SQL comparison with now
Expired_AnyStatus(w, scope, clock) ==
  {i \in DOMAIN w : /\ w[i].approval_deadline # None
                    /\ w[i].approval_deadline < clock
                    /\ (scope # "" => w[i].class_session_id = scope)}

Expired_AtDeadline(w, scope, clock) ==
  {i \in DOMAIN w : /\ w[i].status = "ASSIGNED"
                    /\ w[i].approval_deadline # None
                    /\ w[i].approval_deadline <= clock
                    /\ (scope # "" => w[i].class_session_id = scope)}

Expired(w, scope, clock) ==
  {i \in DOMAIN w : /\ w[i].status = "ASSIGNED"
                    /\ w[i].approval_deadline # None
                    /\ w[i].approval_deadline < clock
                    /\ (scope # "" => w[i].class_session_id = scope)}

\* one promote_from_queue call per expired entry, each in its own transaction
RECURSIVE PromoteEach(_, _, _)
PromoteEach(w, expired, clock) ==
  IF expired = {}
  THEN {w}
  ELSE LET entry == CHOOSE i \in expired : \A j \in expired : i <= j
       IN UNION {PromoteEach(o.wl, expired \ {entry}, clock) :
                   o \in promote_from_queue(w, w[entry].class_session_id, clock)}

check_expired_assignments_NoExpire(w, scope, clock) ==
  LET expired == Expired(w, scope, clock)
  IN {[wl |-> x, ret |-> Cardinality(expired)] :
        x \in PromoteEach(w, expired, clock)}

\* the tables check_expired_assignments can commit, with the count it returns
check_expired_assignments(w, scope, clock) ==
  LET expired == Expired(w, scope, clock)
  IN {[wl |-> SetStatus(x, expired, "EXPIRED"), ret |-> Cardinality(expired)] :
        x \in PromoteEach(w, expired, clock)}

(* ---- HTTP layer ---- *)
\* the status code the error handlers answer an exception with
HttpStatus(raised) ==
  IF raised = "NotFoundError" THEN 404
  ELSE IF raised = "DuplicateError" THEN 409
  ELSE IF raised = "AppError" THEN 400
  ELSE 500

\* the exception class of a branch of confirm_assignment
ErrorClass(chk) ==
  IF chk \in {"AppError:not_assigned", "AppError:deadline_passed"} THEN "AppError" ELSE chk

\* the methods db_waiting_list defines
RepositoryMethods ==
  {"calculate_priority_score", "add_to_waiting_list", "promote_from_queue",
   "confirm_assignment", "check_expired_assignments", "get_waiting_list",
   "detect_high_demand"}

\* WaitingListService.check_expired_assignments: the attribute it looks up on
\* the repository is expire_assignments
service_check_expired_assignments(w, scope, clock) ==
  IF "expire_assignments" \in RepositoryMethods
  THEN {[wl |-> o.wl, ret |-> o.ret, raised |-> "none"] :
          o \in check_expired_assignments(w, scope, clock)}
  ELSE {[wl |-> w, ret |-> None, raised |-> "AttributeError"]}

\* POST /waiting-list/check-expired: any exception becomes an AppError
check_expired_endpoint(w, scope, clock) ==
  {[wl |-> o.wl,
    status |-> IF o.raised = "none" THEN 200 ELSE HttpStatus("AppError"),
    expired_count |-> o.ret] :
     o \in service_check_expired_assignments(w, scope, clock)}

\* A request to cancel (withdraw) a waiting-list entry: the blueprint has the
\* routes add, confirm, list and check-expired only, and neither the service
\* nor the repository has a method that writes CANCELLED or cancelled_at, so
\* the request is answered 404 by the framework and no table is written.
withdraw(w, wid, clock) == {[wl |-> w, status |-> HttpStatus("NotFoundError")]}

(* ---- enrollment gateway ---- *)
\* the branch enroll_member takes: the error it raises, "full" or "ok"
EnrollCheck(e, sid, mid) ==
  IF sid \notin DOMAIN class_session THEN "NotFoundError"
  ELSE IF mid \notin members THEN "NotFoundError"
  ELSE IF RegisteredFor(e, sid, mid) > 0 THEN "DuplicateError"
  ELSE IF BagCardinality(Registered(e, sid)) >= class_session[sid].capacity THEN "full"
  ELSE "ok"

(* ---- a transaction in flight ---- *)
\* Every repository method opens its own database session: its queries read
\* the tables as they are when it starts, and its changes (autoflush is off)
\* reach the database at session.commit().  txn is the one request whose
\* reads are done and whose commit is still to come, while other requests
\* run from start to end; Idle when there is none.
Idle ==
  [op |-> "idle", pc |-> "", sid |-> "", mid |-> "", wid |-> 0,
   w |-> <<>>, clock |-> 0, expired |-> {}, todo |-> {},
   local |-> <<>>, goal |-> <<>>]

\* the flush of a session: an UPDATE by primary key of the columns the
\* request changed on the rows it loaded (local against the snapshot it
\* read), then an INSERT of the rows it added
Flush(cur, snap, local) ==
  [i \in DOMAIN cur |->
     IF i \in DOMAIN snap /\ local[i] # snap[i]
     THEN [f \in DOMAIN cur[i] |->
             IF local[i][f] # snap[i][f] THEN local[i][f] ELSE cur[i][f]]
     ELSE cur[i]]
  \o SubSeq(local, Len(snap) + 1, Len(local))

cancel_enrollment_NoPromote(w, e, sid, mid, clock) ==
  IF RegisteredFor(e, sid, mid) = 0
  THEN {[wl |-> w, e |-> e, raised |-> "NotFoundError"]}
  ELSE {[wl |-> w, e |-> CancelRow(e, sid, mid), raised |-> "none"]}

\* the tables cancel_enrollment can commit, with the error it raises
cancel_enrollment(w, e, sid, mid, clock) ==
  IF RegisteredFor(e, sid, mid) = 0
  THEN {[wl |-> w, e |-> e, raised |-> "NotFoundError"]}
  ELSE {[wl |-> o.wl, e |-> CancelRow(e, sid, mid), raised |-> "none"] :
          o \in promote_from_queue(w, sid, clock)}

(* ---- enroll ---- *)
\* the entry as add_to_waiting_list hands it to its caller: session.commit()
\* has expired its attributes (the sessionmaker leaves expire_on_commit at
\* its default) and the end of the with block has closed its session
AddReturn(position) ==
  [position |-> position, expired |-> TRUE, session |-> "closed"]

\* wl_entry.position: an expired attribute is reloaded through the session
\* of the object, and there is none to reload it
ReadPosition(obj) ==
  IF obj.expired /\ obj.session = "closed"
  THEN [raised |-> "DetachedInstanceError", value |-> None]
  ELSE [raised |-> "none", value |-> obj.position]

\* the tables enroll_member can commit, with the error it raises and the
\* queue position in the message of the error (None when it has none)
enroll_member(w, e, sid, mid, clock) ==
  LET chk == EnrollCheck(e, sid, mid)
  IN IF chk = "full"
     THEN IF AddCheck(w, e, sid, mid) # "ok"
          THEN {[wl |-> w, e |-> e, raised |-> AddCheck(w, e, sid, mid),
                 position |-> None]}
          ELSE {[wl |-> o.wl, e |-> e, raised |-> "AppError",
                 position |-> ReadPosition(AddReturn(o.ret)).value] :
                  o \in AddOutcomes(w, sid, mid, clock)}
     ELSE IF chk = "ok"
     THEN {[wl |-> w, e |-> NewEnrollment(e, sid, mid), raised |-> "none",
            position |-> None]}
     ELSE {[wl |-> w, e |-> e, raised |-> chk, position |-> None]}

(* ---- initial state ---- *)
\* one open session of capacity 1, three members (two on a VIP plan, one on
\* a monthly plan), no enrollment and an empty waiting list
Sub(mid, plan_type) ==
  [member_id |-> mid, plan_type |-> plan_type, status |-> "ACTIVE",
   frozen_until |-> None]

Init ==
  /\ now = 0
  /\ waiting_list = <<>>
  /\ enrollment = EmptyBag
  /\ class_session = [s \in {"s1"} |-> [capacity |-> 1, status |-> "OPEN"]]
  /\ members = {"m1", "m2", "m3"}
  /\ subscription = <<Sub("m1", "VIP"), Sub("m2", "VIP"), Sub("m3", "MONTHLY")>>
  /\ txn = Idle

(* ---- actions ---- *)
\* An operation that raises leaves every table as it was (rollback), so it
\* is a stuttering step; the error it raises is the value of AddCheck,
\* ConfirmCheck or EnrollCheck in the state it is called in.
Tick ==
  /\ now + TickHours <= MaxNow
  /\ now' = now + TickHours
  /\ UNCHANGED <<waiting_list, enrollment, class_session, members, subscription, txn>>

AddToWaitingList(sid, mid) ==
  /\ IF AddCheck(waiting_list, enrollment, sid, mid) # "ok"
     THEN UNCHANGED waiting_list
     ELSE /\ Len(waiting_list) < MaxWaiting
          /\ \E o \in AddOutcomes(waiting_list, sid, mid, now) : waiting_list' = o.wl
  /\ UNCHANGED <<now, enrollment, class_session, members, subscription, txn>>

PromoteFromQueue(sid) ==
  /\ \E o \in promote_from_queue(waiting_list, sid, now) : waiting_list' = o.wl
  /\ UNCHANGED <<now, enrollment, class_session, members, subscription, txn>>

ConfirmAssignment_NoPromote(wid) ==
  /\ LET chk == ConfirmCheck(waiting_list, wid, now)
     IN IF chk = "AppError:deadline_passed"
        THEN /\ waiting_list' = SetStatus(waiting_list, {wid}, "EXPIRED")
             /\ UNCHANGED enrollment
        ELSE IF chk = "ok"
        THEN /\ BagCardinality(enrollment) < MaxEnrollment
             /\ enrollment' = NewEnrollment(enrollment,
                                            waiting_list[wid].class_session_id,
                                            waiting_list[wid].member_id)
             /\ waiting_list' = ConfirmEntry(waiting_list, wid, now)
        ELSE UNCHANGED <<waiting_list, enrollment>>
  /\ UNCHANGED <<now, class_session, members, subscription, txn>>

ConfirmAssignment(wid) ==
  /\ LET chk == ConfirmCheck(waiting_list, wid, now)
     IN IF chk = "AppError:deadline_passed"
        THEN /\ \E o \in promote_from_queue(SetStatus(waiting_list, {wid}, "EXPIRED"),
                                            waiting_list[wid].class_session_id, now) :
                  waiting_list' = o.wl
             /\ UNCHANGED enrollment
        ELSE IF chk = "ok"
        THEN /\ BagCardinality(enrollment) < MaxEnrollment
             /\ enrollment' = NewEnrollment(enrollment,
                                            waiting_list[wid].class_session_id,
                                            waiting_list[wid].member_id)
             /\ waiting_list' = ConfirmEntry(waiting_list, wid, now)
        ELSE UNCHANGED <<waiting_list, enrollment>>
  /\ UNCHANGED <<now, class_session, members, subscription, txn>>

CheckExpiredAssignments(scope) ==
  /\ \E o \in check_expired_assignments(waiting_list, scope, now) :
       waiting_list' = o.wl
  /\ UNCHANGED <<now, enrollment, class_session, members, subscription, txn>>

EnrollMember(sid, mid) ==
  /\ \E o \in enroll_member(waiting_list, enrollment, sid, mid, now) :
       /\ Len(o.wl) <= MaxWaiting
       /\ BagCardinality(o.e) <= MaxEnrollment
       /\ waiting_list' = o.wl
       /\ enrollment' = o.e
  /\ UNCHANGED <<now, class_session, members, subscription, txn>>

CancelEnrollment(sid, mid) ==
  /\ \E o \in cancel_enrollment(waiting_list, enrollment, sid, mid, now) :
       /\ waiting_list' = o.wl
       /\ enrollment' = o.e
  /\ UNCHANGED <<now, class_session, members, subscription, txn>>

Next ==
  \/ Tick
  \/ \E sid \in SessionIds, mid \in MemberIds : AddToWaitingList(sid, mid)
  \/ \E sid \in SessionIds : PromoteFromQueue(sid)
  \/ \E wid \in 1..(MaxWaiting + 1) : ConfirmAssignment(wid)
  \/ \E scope \in SessionIds \cup {""} : CheckExpiredAssignments(scope)
  \/ \E sid \in SessionIds, mid \in MemberIds : EnrollMember(sid, mid)
  \/ \E sid \in SessionIds, mid \in MemberIds : CancelEnrollment(sid, mid)

Spec == Init /\ [][Next]_vars

\* the operations a client reaches through the HTTP endpoints and the sweep
\* (promote_from_queue runs only inside them)
NextCallers ==
  \/ Tick
  \/ \E sid \in SessionIds, mid \in MemberIds : AddToWaitingList(sid, mid)
  \/ \E wid \in 1..(MaxWaiting + 1) : ConfirmAssignment(wid)
  \/ \E scope \in SessionIds \cup {""} : CheckExpiredAssignments(scope)
  \/ \E sid \in SessionIds, mid \in MemberIds : EnrollMember(sid, mid)
  \/ \E sid \in SessionIds, mid \in MemberIds : CancelEnrollment(sid, mid)

SpecCallers == Init /\ [][NextCallers]_vars

(* ---- several sessions ---- *)
\* two open sessions of capacity 1 and a session closed for registration
AllSessionIds == {"s1", "s2", "s3", "s9"}

InitSessions ==
  /\ now = 0
  /\ waiting_list = <<>>
  /\ enrollment = EmptyBag
  /\ class_session = [s \in {"s1", "s2", "s3"} |->
                        [capacity |-> 1,
                         status |-> IF s = "s3" THEN "CLOSED" ELSE "OPEN"]]
  /\ members = {"m1", "m2", "m3"}
  /\ subscription = <<Sub("m1", "VIP"), Sub("m2", "VIP"), Sub("m3", "MONTHLY")>>
  /\ txn = Idle

NextSessions ==
  \/ Tick
  \/ \E sid \in AllSessionIds, mid \in MemberIds : AddToWaitingList(sid, mid)
  \/ \E sid \in AllSessionIds : PromoteFromQueue(sid)
  \/ \E scope \in AllSessionIds \cup {""} : CheckExpiredAssignments(scope)

SpecSessions == InitSessions /\ [][NextSessions]_vars

\* enqueueing and enrolling over these sessions
NextEnqueue ==
  \/ \E sid \in AllSessionIds, mid \in MemberIds : AddToWaitingList(sid, mid)
  \/ \E sid \in AllSessionIds, mid \in MemberIds : EnrollMember(sid, mid)
  \/ \E sid \in AllSessionIds : PromoteFromQueue(sid)

SpecEnqueue == InitSessions /\ [][NextEnqueue]_vars

(* ---- the steps of the request in flight ---- *)
\* add_to_waiting_list, up to its last query: the checks pass on the tables
\* it reads (a request that raises changes nothing)
BeginAdd(sid, mid) ==
  /\ txn = Idle
  /\ AddCheck(waiting_list, enrollment, sid, mid) = "ok"
  /\ Len(waiting_list) < MaxWaiting
  /\ txn' = [Idle EXCEPT !.op = "add", !.pc = "commit", !.sid = sid, !.mid = mid,
                         !.w = waiting_list, !.clock = now]
  /\ UNCHANGED <<now, waiting_list, enrollment, class_session, members, subscription>>

\* add_to_waiting_list, session.commit()
CommitAdd ==
  /\ txn.op = "add"
  /\ \E o \in AddOutcomes(txn.w, txn.sid, txn.mid, txn.clock) :
       waiting_list' = Flush(waiting_list, txn.w, o.wl)
  /\ txn' = Idle
  /\ UNCHANGED <<now, enrollment, class_session, members, subscription>>

\* promote_from_queue after its queries (back to Idle when it returns None)
PromoteSnapshot(sid) ==
  IF Waiting(waiting_list, sid) = {}
  THEN Idle
  ELSE [Idle EXCEPT !.op = "promote", !.pc = "commit", !.sid = sid,
                    !.w = waiting_list, !.clock = now]

\* a caller about to invoke promote_from_queue
PromoteCall(sid) == [Idle EXCEPT !.op = "promote", !.pc = "begin", !.sid = sid]

BeginPromote(sid) ==
  /\ txn = Idle
  /\ Waiting(waiting_list, sid) # {}
  /\ txn' = PromoteSnapshot(sid)
  /\ UNCHANGED <<now, waiting_list, enrollment, class_session, members, subscription>>

\* promote_from_queue called by cancel_enrollment or confirm_assignment:
\* its queries
ReadPromote ==
  /\ txn.op = "promote" /\ txn.pc = "begin"
  /\ txn' = PromoteSnapshot(txn.sid)
  /\ UNCHANGED <<now, waiting_list, enrollment, class_session, members, subscription>>

\* promote_from_queue, session.commit()
CommitPromote ==
  /\ txn.op = "promote" /\ txn.pc = "commit"
  /\ \E o \in promote_from_queue(txn.w, txn.sid, txn.clock) :
       waiting_list' = Flush(waiting_list, txn.w, o.wl)
  /\ txn' = Idle
  /\ UNCHANGED <<now, enrollment, class_session, members, subscription>>

\* confirm_assignment, up to the deadline test
BeginConfirm(wid) ==
  /\ txn = Idle
  /\ ConfirmCheck(waiting_list, wid, now) \in {"ok", "AppError:deadline_passed"}
  /\ BagCardinality(enrollment) < MaxEnrollment
  /\ txn' = [Idle EXCEPT !.op = "confirm", !.pc = "commit", !.wid = wid,
                         !.w = waiting_list, !.clock = now]
  /\ UNCHANGED <<now, waiting_list, enrollment, class_session, members, subscription>>

\* confirm_assignment, session.commit(): of the EXPIRED status, with the call
\* of promote_from_queue still to come, or of the enrollment and CONFIRMED
CommitConfirm ==
  /\ txn.op = "confirm"
  /\ IF ConfirmCheck(txn.w, txn.wid, txn.clock) = "AppError:deadline_passed"
     THEN /\ waiting_list' = Flush(waiting_list, txn.w,
                                   SetStatus(txn.w, {txn.wid}, "EXPIRED"))
          /\ txn' = PromoteCall(txn.w[txn.wid].class_session_id)
          /\ UNCHANGED enrollment
     ELSE /\ enrollment' = NewEnrollment(enrollment,
                                         txn.w[txn.wid].class_session_id,
                                         txn.w[txn.wid].member_id)
          /\ waiting_list' = Flush(waiting_list, txn.w,
                                   ConfirmEntry(txn.w, txn.wid, txn.clock))
          /\ txn' = Idle
  /\ UNCHANGED <<now, class_session, members, subscription>>

\* check_expired_assignments, query.all()
BeginSweep(scope) ==
  /\ txn = Idle
  /\ Expired(waiting_list, scope, now) # {}
  /\ txn' = [Idle EXCEPT !.op = "sweep", !.pc = "loop", !.sid = scope,
                         !.expired = Expired(waiting_list, scope, now),
                         !.todo = Expired(waiting_list, scope, now)]
  /\ UNCHANGED <<now, waiting_list, enrollment, class_session, members, subscription>>

\* the loop of check_expired_assignments: the queries of promote_from_queue
\* for the next expired entry
SweepReadPromote ==
  /\ txn.op = "sweep" /\ txn.pc = "loop" /\ txn.todo # {}
  /\ txn' = [txn EXCEPT !.pc = "promote", !.w = waiting_list, !.clock = now,
                        !.wid = CHOOSE i \in txn.todo : \A j \in txn.todo : i <= j]
  /\ UNCHANGED <<now, waiting_list, enrollment, class_session, members, subscription>>

\* the loop of check_expired_assignments: the commit of that promote_from_queue
SweepCommitPromote ==
  /\ txn.op = "sweep" /\ txn.pc = "promote"
  /\ \E o \in promote_from_queue(txn.w, txn.w[txn.wid].class_session_id, txn.clock) :
       waiting_list' = Flush(waiting_list, txn.w, o.wl)
  /\ txn' = [txn EXCEPT !.pc = "loop", !.todo = @ \ {txn.wid}, !.w = <<>>,
                        !.clock = 0, !.wid = 0]
  /\ UNCHANGED <<now, enrollment, class_session, members, subscription>>

\* check_expired_assignments, session.commit(): the EXPIRED statuses
CommitSweep ==
  /\ txn.op = "sweep" /\ txn.pc = "loop" /\ txn.todo = {}
  /\ waiting_list' = SetStatus(waiting_list, txn.expired, "EXPIRED")
  /\ txn' = Idle
  /\ UNCHANGED <<now, enrollment, class_session, members, subscription>>

\* cancel_enrollment up to its commit (one row of enrollment, taken as one
\* step), with the call of promote_from_queue still to come
BeginCancel(sid, mid) ==
  /\ txn = Idle
  /\ RegisteredFor(enrollment, sid, mid) > 0
  /\ enrollment' = CancelRow(enrollment, sid, mid)
  /\ txn' = PromoteCall(sid)
  /\ UNCHANGED <<now, waiting_list, class_session, members, subscription>>

\* Requests that overlap: any request runs from start to end while the
\* request in flight is between its reads and its commit.
\* enqueue requests
NextAdds ==
  \/ Tick
  \/ \E sid \in SessionIds, mid \in MemberIds : AddToWaitingList(sid, mid)
  \/ \E sid \in SessionIds, mid \in MemberIds : BeginAdd(sid, mid)
  \/ CommitAdd

SpecAdds == Init /\ [][NextAdds]_vars

\* promotions, called directly and by cancel_enrollment
NextPromotes ==
  \/ \E sid \in SessionIds, mid \in MemberIds : AddToWaitingList(sid, mid)
  \/ \E sid \in SessionIds, mid \in MemberIds : EnrollMember(sid, mid)
  \/ \E sid \in SessionIds, mid \in MemberIds : CancelEnrollment(sid, mid)
  \/ \E sid \in SessionIds : PromoteFromQueue(sid)
  \/ \E sid \in SessionIds : BeginPromote(sid)
  \/ \E sid \in SessionIds, mid \in MemberIds : BeginCancel(sid, mid)
  \/ ReadPromote
  \/ CommitPromote

SpecPromotes == Init /\ [][NextPromotes]_vars

\* confirmations and sweeps of the holds
NextConfirms ==
  \/ Tick
  \/ \E sid \in SessionIds, mid \in MemberIds : AddToWaitingList(sid, mid)
  \/ \E sid \in SessionIds : PromoteFromQueue(sid)
  \/ \E wid \in 1..(MaxWaiting + 1) : ConfirmAssignment(wid)
  \/ \E scope \in SessionIds \cup {""} : CheckExpiredAssignments(scope)
  \/ \E wid \in 1..(MaxWaiting + 1) : BeginConfirm(wid)
  \/ CommitConfirm
  \/ ReadPromote
  \/ CommitPromote
  \/ \E scope \in SessionIds \cup {""} : BeginSweep(scope)
  \/ SweepReadPromote
  \/ SweepCommitPromote
  \/ CommitSweep

SpecConfirms == Init /\ [][NextConfirms]_vars

(* ---- the unit of work of add and promote ---- *)
\* One request at a time, taken write by write.  The session loads the rows
\* it queries (txn.w), changes its own copies (txn.local) until they are the
\* rows the method means to commit (txn.goal), and sends nothing to the
\* database before session.commit(); an exception at any point reaches
\* session.rollback() and the request ends, raising.
PendingRows(t) == {i \in DOMAIN t.w : t.local[i] # t.goal[i]}

\* the row the method writes next: promote stamps the head and then runs
\* over the remaining rows as the query returns them, add runs over the
\* rows in the order of their positions
NextRows(t) ==
  IF t.op = "promote"
  THEN IF t.wid \in PendingRows(t) THEN {t.wid} ELSE PendingRows(t)
  ELSE {i \in PendingRows(t) :
          \A j \in PendingRows(t) : t.w[i].position <= t.w[j].position}

\* add_to_waiting_list up to the final position
BeginAddWrites(sid, mid) ==
  /\ txn.op = "idle"
  /\ AddCheck(waiting_list, enrollment, sid, mid) = "ok"
  /\ Len(waiting_list) < MaxWaiting
  /\ \E o \in AddOutcomes(waiting_list, sid, mid, now) :
       txn' = [Idle EXCEPT !.op = "add", !.pc = "write", !.sid = sid, !.mid = mid,
                           !.w = waiting_list, !.local = waiting_list,
                           !.goal = o.wl, !.clock = now]
  /\ UNCHANGED <<now, waiting_list, enrollment, class_session, members, subscription>>

\* promote_from_queue up to first_entry
BeginPromoteWrites(sid) ==
  /\ txn.op = "idle"
  /\ Waiting(waiting_list, sid) # {}
  /\ \E o \in promote_from_queue(waiting_list, sid, now) :
       txn' = [Idle EXCEPT !.op = "promote", !.pc = "write", !.sid = sid,
                           !.wid = o.ret, !.w = waiting_list,
                           !.local = waiting_list, !.goal = o.wl, !.clock = now]
  /\ UNCHANGED <<now, waiting_list, enrollment, class_session, members, subscription>>

WriteRow_Autoflush ==
  /\ txn.op \in {"add", "promote"} /\ txn.pc = "write"
  /\ \E i \in NextRows(txn) :
       /\ txn' = [txn EXCEPT !.local[i] = txn.goal[i]]
       /\ waiting_list' = [waiting_list EXCEPT ![i] = txn.goal[i]]
  /\ UNCHANGED <<now, enrollment, class_session, members, subscription>>

\* one assignment to a loaded row: entry.position += 1, the stamps of the
\* promoted entry, entry.position = max(1, entry.position - 1)
WriteRow ==
  /\ txn.op \in {"add", "promote"} /\ txn.pc = "write"
  /\ \E i \in NextRows(txn) :
       txn' = [txn EXCEPT !.local[i] = txn.goal[i]]
  /\ UNCHANGED <<now, waiting_list, enrollment, class_session, members, subscription>>

\* session.add(entry), after the loop of add_to_waiting_list
AddEntry ==
  /\ txn.op = "add" /\ txn.pc = "write"
  /\ PendingRows(txn) = {}
  /\ txn' = [txn EXCEPT !.local = txn.goal, !.pc = "commit"]
  /\ UNCHANGED <<now, waiting_list, enrollment, class_session, members, subscription>>

\* session.commit() of add_to_waiting_list and of promote_from_queue
CommitWrites ==
  /\ \/ txn.op = "add" /\ txn.pc = "commit"
     \/ txn.op = "promote" /\ txn.pc = "write" /\ PendingRows(txn) = {}
  /\ waiting_list' = Flush(waiting_list, txn.w, txn.local)
  /\ txn' = Idle
  /\ UNCHANGED <<now, enrollment, class_session, members, subscription>>

\* except Exception: session.rollback(); raise -- from any point of the
\* method, the commit included; the request is over and its copies are
\* discarded with the session
Rollback ==
  /\ txn.op \in {"add", "promote"}
  /\ txn' = [txn EXCEPT !.op = "idle", !.pc = "raised"]
  /\ UNCHANGED <<now, waiting_list, enrollment, class_session, members, subscription>>

NextWrites ==
  \/ Tick
  \/ \E sid \in SessionIds, mid \in MemberIds : BeginAddWrites(sid, mid)
  \/ \E sid \in SessionIds : BeginPromoteWrites(sid)
  \/ WriteRow
  \/ AddEntry
  \/ CommitWrites
  \/ Rollback

SpecWrites == Init /\ [][NextWrites]_vars

(* ---- the periodic sweep ---- *)
\* The queue operations with a clock that keeps advancing (up to MaxNow) and
\* a sweep of all sessions that is called again and again, as its docstring
\* asks of a cron job or scheduled task.
NextHolds ==
  \/ Tick
  \/ \E sid \in SessionIds, mid \in MemberIds : AddToWaitingList(sid, mid)
  \/ \E sid \in SessionIds : PromoteFromQueue(sid)
  \/ \E wid \in 1..(MaxWaiting + 1) : ConfirmAssignment(wid)
  \/ \E scope \in SessionIds \cup {""} : CheckExpiredAssignments(scope)

SpecHolds ==
  /\ Init
  /\ [][NextHolds]_vars
  /\ WF_vars(Tick)
  /\ WF_vars(CheckExpiredAssignments(""))

(* ---- subscriptions ---- *)
\* A plan is identified by its plan_type; "p9" is the id of no plan.  A
\* subscription is identified by its index in the table.
PlanIds == {"VIP", "MONTHLY", "p9"}
Plans == {"VIP", "MONTHLY"}
FreezeDays == {1}
HoursPerDay == 24

\* the error assign_subscription raises, or "ok"
AssignCheck(mid, plan_id) ==
  IF mid \notin members THEN "NotFoundError"
  ELSE IF plan_id \notin Plans THEN "NotFoundError"
  ELSE IF ActiveSubs(mid) # {} THEN "DuplicateError"
  ELSE "ok"

AssignSubscription(mid, plan_id) ==
  /\ IF AssignCheck(mid, plan_id) # "ok"
     THEN UNCHANGED subscription
     ELSE /\ Len(subscription) < MaxSubscription
          /\ subscription' = Append(subscription, Sub(mid, plan_id))
  /\ UNCHANGED <<now, waiting_list, enrollment, class_session, members, txn>>

FreezeSubscription(subscription_id, days) ==
  /\ IF \/ subscription_id \notin DOMAIN subscription
        \/ subscription[subscription_id].status # "ACTIVE"
     THEN UNCHANGED subscription
     ELSE subscription' =
            [subscription EXCEPT
               ![subscription_id].frozen_until =
                  IF @ = None \/ @ <= now
                  THEN now + days * HoursPerDay
                  ELSE @ + days * HoursPerDay,
               ![subscription_id].status = "FROZEN"]
  /\ UNCHANGED <<now, waiting_list, enrollment, class_session, members, txn>>

UnfreezeSubscription(subscription_id) ==
  /\ IF \/ subscription_id \notin DOMAIN subscription
        \/ subscription[subscription_id].status # "FROZEN"
     THEN UNCHANGED subscription
     ELSE subscription' =
            [subscription EXCEPT ![subscription_id].frozen_until = None,
                                 ![subscription_id].status = "ACTIVE"]
  /\ UNCHANGED <<now, waiting_list, enrollment, class_session, members, txn>>

\* the subscription operations
NextSubscriptions ==
  \/ Tick
  \/ \E mid \in MemberIds, plan_id \in PlanIds : AssignSubscription(mid, plan_id)
  \/ \E id \in 1..(MaxSubscription + 1), days \in FreezeDays :
       FreezeSubscription(id, days)
  \/ \E id \in 1..(MaxSubscription + 1) : UnfreezeSubscription(id)

SpecSubscriptions == Init /\ [][NextSubscriptions]_vars

\* the subscription operations with enqueueing, which reads the table
NextScores ==
  \/ \E mid \in MemberIds, plan_id \in PlanIds : AssignSubscription(mid, plan_id)
  \/ \E id \in 1..(MaxSubscription + 1), days \in FreezeDays :
       FreezeSubscription(id, days)
  \/ \E id \in 1..(MaxSubscription + 1) : UnfreezeSubscription(id)
  \/ \E sid \in SessionIds, mid \in MemberIds : AddToWaitingList(sid, mid)

SpecScores == Init /\ [][NextScores]_vars

(* ---- demand report ---- *)
\* the defaults of detect_high_demand
min_waiting == 5
min_waiting_hours == 24

detect_high_demand_Open(w, clock, minw, minh) ==
  LET rows(sid) == {i \in DOMAIN w : /\ w[i].class_session_id = sid
                                     /\ w[i].status \in {"WAITING", "ASSIGNED"}}
      waiting_seconds(i) == (clock - w[i].created_at) * SecondsPerHour
      session_stats ==
        {[session_id |-> sid,
          waiting_count |-> Cardinality(rows(sid)),
          max_waiting_seconds |->
            CHOOSE m \in {0} \cup {waiting_seconds(i) : i \in rows(sid)} :
              \A i \in rows(sid) : m >= waiting_seconds(i) /\ m >= 0,
          current_capacity |-> class_session[sid].capacity] :
           sid \in {s \in DOMAIN class_session : rows(s) # {}}}
  IN [wl |-> w,
      ret |-> {stats \in session_stats :
                 \/ stats.waiting_count >= minw
                 \/ stats.max_waiting_seconds >= minh * SecondsPerHour}]

\* the table after detect_high_demand (a query and a loop over its rows, no
\* write) and the sessions it returns; waiting_hours is a quotient by 3600,
\* not rounded, so the comparison with the threshold is made in seconds
detect_high_demand(w, clock, minw, minh) ==
  LET rows(sid) == {i \in DOMAIN w : /\ w[i].class_session_id = sid
                                     /\ w[i].status = "WAITING"}
      waiting_seconds(i) == (clock - w[i].created_at) * SecondsPerHour
      session_stats ==
        {[session_id |-> sid,
          waiting_count |-> Cardinality(rows(sid)),
          max_waiting_seconds |->
            CHOOSE m \in {0} \cup {waiting_seconds(i) : i \in rows(sid)} :
              \A i \in rows(sid) : m >= waiting_seconds(i) /\ m >= 0,
          current_capacity |-> class_session[sid].capacity] :
           sid \in {s \in DOMAIN class_session : rows(s) # {}}}
  IN [wl |-> w,
      ret |-> {stats \in session_stats :
                 \/ stats.waiting_count >= minw
                 \/ stats.max_waiting_seconds >= minh * SecondsPerHour}]

\* FinancialService.get_high_demand_sessions hands the call on
get_high_demand_sessions(w, clock, minw, minh) ==
  detect_high_demand(w, clock, minw, minh)

(* ---- one member of each tier ---- *)
\* a VIP subscription, a monthly subscription and no subscription
InitTiers ==
  /\ now = 0
  /\ waiting_list = <<>>
  /\ enrollment = EmptyBag
  /\ class_session = [s \in {"s1"} |-> [capacity |-> 1, status |-> "OPEN"]]
  /\ members = {"m1", "m2", "m3"}
  /\ subscription = <<Sub("m1", "VIP"), Sub("m2", "MONTHLY")>>
  /\ txn = Idle

SpecTiers == InitTiers /\ [][NextHolds]_vars

(* ---- properties ---- *)

\* C1: for every session the positions of its WAITING entries are exactly
\* 1..N, N the number of WAITING entries (no gap, no duplicate).
DensePositions ==
  \A sid \in DOMAIN class_session :
    LET W == Waiting(waiting_list, sid)
    IN {waiting_list[i].position : i \in W} = 1..Cardinality(W)

\* a queue of three that has been inserted into at the front and promoted from
DenseWitness ==
  \E sid \in DOMAIN class_session :
    /\ Cardinality(Waiting(waiting_list, sid)) >= 2
    /\ Assigned(waiting_list, sid) # {}
    /\ \E i, j \in Waiting(waiting_list, sid) :
         i < j /\ waiting_list[j].position < waiting_list[i].position

\* C2: among the WAITING entries of one session, a higher priority_score, or
\* an equal score with an earlier created_at, means a lower position.
OrderedByPriority ==
  \A sid \in DOMAIN class_session :
    \A a, b \in Waiting(waiting_list, sid) :
      (\/ waiting_list[a].priority_score > waiting_list[b].priority_score
       \/ /\ waiting_list[a].priority_score = waiting_list[b].priority_score
          /\ waiting_list[a].created_at < waiting_list[b].created_at)
      => waiting_list[a].position < waiting_list[b].position

\* two equal scores enqueued at different times, behind neither a lower score
OrderedWitness ==
  \E sid \in DOMAIN class_session :
    \E a, b, c \in Waiting(waiting_list, sid) :
      /\ waiting_list[a].priority_score = waiting_list[b].priority_score
      /\ waiting_list[a].created_at < waiting_list[b].created_at
      /\ waiting_list[c].priority_score < waiting_list[a].priority_score
      /\ waiting_list[c].created_at < waiting_list[a].created_at

PromoteContract ==
  \A sid \in SessionIds :
    LET W == Waiting(waiting_list, sid)
    IN IF W = {}
       THEN promote_from_queue(waiting_list, sid, now) = {[wl |-> waiting_list, ret |-> None]}
       ELSE \A o \in promote_from_queue(waiting_list, sid, now) :
              /\ DOMAIN o.wl = DOMAIN waiting_list
              /\ o.ret \in W
              /\ waiting_list[o.ret].position = 1
              /\ o.wl[o.ret].status = "ASSIGNED"
              /\ {i \in DOMAIN waiting_list : o.wl[i].status # waiting_list[i].status} = {o.ret}
              /\ \A i \in W \ {o.ret} :
                   o.wl[i] = [waiting_list[i] EXCEPT !.position = @ - 1]
              /\ \A i \in DOMAIN waiting_list \ W : o.wl[i] = waiting_list[i]
              /\ {o.wl[i].position : i \in Waiting(o.wl, sid)} = 1..(Cardinality(W) - 1)

\* the head was promoted just now and the entry behind it has moved up to 1
PromoteWitness ==
  \E a, b \in DOMAIN waiting_list :
    /\ waiting_list[a].class_session_id = waiting_list[b].class_session_id
    /\ waiting_list[a].status = "ASSIGNED"
    /\ waiting_list[a].assigned_at = now
    /\ waiting_list[a].position = 1
    /\ waiting_list[b].status = "WAITING"
    /\ waiting_list[b].position = 1
    /\ waiting_list[b].created_at < now

\* C5: confirm on an ASSIGNED entry whose deadline has passed fails, creates
\* no enrollment, leaves the entry EXPIRED, and makes exactly the WAITING
\* entry at position 1 ASSIGNED (no entry when the session has none waiting).
ConfirmExpired ==
  /\ [](\A wid \in DOMAIN waiting_list :
          (waiting_list[wid].status = "ASSIGNED" /\ now > waiting_list[wid].approval_deadline)
          => ConfirmCheck(waiting_list, wid, now) = "AppError:deadline_passed")
  /\ [][\A wid \in DOMAIN waiting_list :
          (/\ waiting_list[wid].status = "ASSIGNED"
           /\ now > waiting_list[wid].approval_deadline
           /\ ConfirmAssignment(wid))
          => LET W == Waiting(waiting_list, waiting_list[wid].class_session_id)
                 newly == {i \in DOMAIN waiting_list' :
                             /\ waiting_list'[i].status = "ASSIGNED"
                             /\ (i \in DOMAIN waiting_list => waiting_list[i].status # "ASSIGNED")}
             IN /\ enrollment' = enrollment
                /\ DOMAIN waiting_list' = DOMAIN waiting_list
                /\ waiting_list'[wid].status = "EXPIRED"
                /\ IF W = {} THEN newly = {}
                   ELSE \E h \in W : waiting_list[h].position = 1 /\ newly = {h}
      ]_vars

\* a hold has expired and its successor was assigned after the deadline
ConfirmExpiredWitness ==
  \E a, b \in DOMAIN waiting_list :
    /\ waiting_list[a].class_session_id = waiting_list[b].class_session_id
    /\ waiting_list[a].status = "EXPIRED"
    /\ waiting_list[b].status = "ASSIGNED"
    /\ waiting_list[b].assigned_at > waiting_list[a].approval_deadline
    /\ enrollment = EmptyBag

\* C6: confirming, within the deadline, the ASSIGNED entry of a member who has
\* no REGISTERED enrollment in the session succeeds, makes that entry and no
\* other CONFIRMED, and creates exactly one enrollment: a REGISTERED one for
\* the entry's (session, member) pair.
RoundTrip ==
  /\ [](\A wid \in DOMAIN waiting_list :
          (waiting_list[wid].status = "ASSIGNED" /\ now <= waiting_list[wid].approval_deadline)
          => ConfirmCheck(waiting_list, wid, now) = "ok")
  /\ [][\A wid \in DOMAIN waiting_list :
          LET sid == waiting_list[wid].class_session_id
              mid == waiting_list[wid].member_id
          IN (/\ waiting_list[wid].status = "ASSIGNED"
              /\ now <= waiting_list[wid].approval_deadline
              /\ CopiesIn(EnrollmentRow(sid, mid, "REGISTERED"), enrollment) = 0
              /\ ConfirmAssignment(wid))
             => /\ DOMAIN waiting_list' = DOMAIN waiting_list
                /\ waiting_list'[wid].status = "CONFIRMED"
                /\ \A i \in DOMAIN waiting_list \ {wid} : waiting_list'[i] = waiting_list[i]
                /\ CopiesIn(EnrollmentRow(sid, mid, "REGISTERED"), enrollment') = 1
                /\ BagCardinality(enrollment') = BagCardinality(enrollment) + 1
                /\ \A r \in BagToSet(enrollment) : CopiesIn(r, enrollment') = CopiesIn(r, enrollment)
      ]_vars

\* an entry confirmed at the very end of its hold, with its single enrollment
RoundTripWitness ==
  \E wid \in DOMAIN waiting_list :
    /\ waiting_list[wid].status = "CONFIRMED"
    /\ waiting_list[wid].confirmed_at = waiting_list[wid].approval_deadline
    /\ CopiesIn(EnrollmentRow(waiting_list[wid].class_session_id,
                              waiting_list[wid].member_id, "REGISTERED"), enrollment) = 1
    /\ BagCardinality(enrollment) = 1

\* C7: entries are created WAITING and never removed; a status only changes
\* WAITING->ASSIGNED, ASSIGNED->CONFIRMED, ASSIGNED->EXPIRED, WAITING->CANCELLED
\* or ASSIGNED->CANCELLED, so CONFIRMED, EXPIRED and CANCELLED are final.
Lifecycle ==
  [][/\ Len(waiting_list') >= Len(waiting_list)
     /\ \A i \in DOMAIN waiting_list :
          waiting_list'[i].status # waiting_list[i].status
          => <<waiting_list[i].status, waiting_list'[i].status>> \in
               {<<"WAITING", "ASSIGNED">>, <<"ASSIGNED", "CONFIRMED">>,
                <<"ASSIGNED", "EXPIRED">>, <<"WAITING", "CANCELLED">>,
                <<"ASSIGNED", "CANCELLED">>}
     /\ \A i \in DOMAIN waiting_list' \ DOMAIN waiting_list :
          waiting_list'[i].status = "WAITING"
    ]_vars

\* a CONFIRMED and an EXPIRED entry that have outlived their deadlines
LifecycleWitness ==
  \E a, b \in DOMAIN waiting_list :
    /\ waiting_list[a].status = "CONFIRMED"
    /\ waiting_list[b].status = "EXPIRED"
    /\ waiting_list[a].approval_deadline < now
    /\ \E c \in DOMAIN waiting_list : waiting_list[c].status = "WAITING"

\* C8: a (session, member) pair has at most one WAITING or ASSIGNED entry; add
\* for a member with such an entry fails with DuplicateError (409 Conflict),
\* and a member whose entries of the session are all CONFIRMED, EXPIRED or
\* CANCELLED, and who is not enrolled, can be queued again.
NoDuplicateQueueing ==
  \A sid \in SessionIds, mid \in MemberIds :
    LET open == {i \in DOMAIN waiting_list :
                   /\ waiting_list[i].class_session_id = sid
                   /\ waiting_list[i].member_id = mid
                   /\ waiting_list[i].status \in {"WAITING", "ASSIGNED"}}
    IN /\ Cardinality(open) <= 1
       /\ open # {} => AddCheck(waiting_list, enrollment, sid, mid) = "DuplicateError"
       /\ (/\ open = {}
           /\ sid \in DOMAIN class_session
           /\ class_session[sid].status # "CLOSED"
           /\ mid \in members
           /\ CopiesIn(EnrollmentRow(sid, mid, "REGISTERED"), enrollment) = 0)
          => AddCheck(waiting_list, enrollment, sid, mid) = "ok"

\* a member queued again after an expired or a confirmed hold
NoDuplicateWitness ==
  \E a, b \in DOMAIN waiting_list :
    /\ a < b
    /\ waiting_list[a].class_session_id = waiting_list[b].class_session_id
    /\ waiting_list[a].member_id = waiting_list[b].member_id
    /\ waiting_list[a].status \in {"EXPIRED", "CONFIRMED"}
    /\ waiting_list[b].status = "ASSIGNED"

\* C9: no member holds a REGISTERED enrollment for a session together with a
\* WAITING or ASSIGNED waiting-list entry for that session.
NotEnrolledAndQueued ==
  \A sid \in SessionIds, mid \in MemberIds :
    CopiesIn(EnrollmentRow(sid, mid, "REGISTERED"), enrollment) > 0
    => ~ \E i \in DOMAIN waiting_list :
           /\ waiting_list[i].class_session_id = sid
           /\ waiting_list[i].member_id = mid
           /\ waiting_list[i].status \in {"WAITING", "ASSIGNED"}

\* C10: a session never has two entries in ASSIGNED status at the same time.
AtMostOneAssigned ==
  \A sid \in SessionIds :
    Cardinality({i \in DOMAIN waiting_list :
                   /\ waiting_list[i].class_session_id = sid
                   /\ waiting_list[i].status = "ASSIGNED"}) <= 1

\* C11: two add requests for one session whose reads and writes interleave
\* never leave two WAITING entries with the same position: once both have
\* committed, the positions of the session's WAITING entries are 1..N.
ConcurrentAddsDense ==
  txn.op = "idle" =>
    \A sid \in DOMAIN class_session :
      LET W == Waiting(waiting_list, sid)
      IN /\ \A i, j \in W :
              i # j => waiting_list[i].position # waiting_list[j].position
         /\ {waiting_list[i].position : i \in W} = 1..Cardinality(W)

\* C12: two promote calls for one session that overlap never assign the same
\* queue head: a promotion that read at least two WAITING entries and commits
\* after another promotion of the session has committed makes one more entry
\* ASSIGNED, and leaves the positions of the WAITING entries 1..N.
ConcurrentPromotesDistinct ==
  [][(/\ CommitPromote
      /\ Cardinality(Waiting(txn.w, txn.sid)) >= 2
      /\ Len(waiting_list) = Len(txn.w)
      /\ Waiting(waiting_list, txn.sid) # Waiting(txn.w, txn.sid)
      /\ Waiting(waiting_list, txn.sid) # {})
     => LET W == Waiting(waiting_list', txn.sid)
        IN /\ Cardinality(Assigned(waiting_list', txn.sid))
                = Cardinality(Assigned(waiting_list, txn.sid)) + 1
           /\ {waiting_list'[i].position : i \in W} = 1..Cardinality(W)
    ]_vars

\* C13: two confirm requests for the same ASSIGNED entry, within its deadline,
\* that overlap create at most one REGISTERED enrollment: the request that
\* commits after the entry has been confirmed creates none.
ConcurrentConfirmOnce ==
  [][(/\ CommitConfirm
      /\ ConfirmCheck(txn.w, txn.wid, txn.clock) = "ok"
      /\ waiting_list[txn.wid].status = "CONFIRMED")
     => enrollment' = enrollment
    ]_vars

\* C14: the expiry and the confirmation of one hold exclude each other and
\* are atomic: a CONFIRMED or EXPIRED entry keeps its status; the step that
\* confirms an entry creates exactly its one enrollment and promotes nobody;
\* the step that expires an entry creates no enrollment and, when the
\* session has a WAITING entry, promotes one in the same step.
ExpiryOrConfirmation ==
  [][\A wid \in DOMAIN waiting_list :
       LET sid == waiting_list[wid].class_session_id
           mid == waiting_list[wid].member_id
           newly == {i \in DOMAIN waiting_list :
                       /\ waiting_list[i].class_session_id = sid
                       /\ waiting_list[i].status # "ASSIGNED"
                       /\ waiting_list'[i].status = "ASSIGNED"}
       IN /\ waiting_list[wid].status \in {"CONFIRMED", "EXPIRED"}
             => waiting_list'[wid].status = waiting_list[wid].status
          /\ (waiting_list[wid].status = "ASSIGNED" /\ waiting_list'[wid].status = "CONFIRMED")
             => /\ enrollment' = enrollment (+) SetToBag({EnrollmentRow(sid, mid, "REGISTERED")})
                /\ newly = {}
          /\ (waiting_list[wid].status = "ASSIGNED" /\ waiting_list'[wid].status = "EXPIRED")
             => /\ enrollment' = enrollment
                /\ Waiting(waiting_list, sid) # {} => Cardinality(newly) = 1
    ]_vars

\* C15: the sweep, for one session or (no session given) for all, makes
\* EXPIRED exactly the ASSIGNED entries in scope whose approval_deadline is
\* before now, promotes once on the session of each of them (the heads of
\* that session's queue become ASSIGNED, the rest moves up), returns the
\* number of entries it expired, and leaves alone every ASSIGNED entry whose
\* deadline has not passed and every entry of a session out of scope.
SweepContract ==
  \A scope \in AllSessionIds \cup {""} :
    LET due == {i \in DOMAIN waiting_list :
                  /\ waiting_list[i].status = "ASSIGNED"
                  /\ waiting_list[i].approval_deadline < now
                  /\ (scope = "" \/ waiting_list[i].class_session_id = scope)}
    IN \A o \in check_expired_assignments(waiting_list, scope, now) :
         /\ DOMAIN o.wl = DOMAIN waiting_list
         /\ o.ret = Cardinality(due)
         /\ {i \in DOMAIN waiting_list :
               o.wl[i].status = "EXPIRED" /\ waiting_list[i].status # "EXPIRED"} = due
         /\ \A i \in DOMAIN waiting_list :
              (waiting_list[i].status = "ASSIGNED" /\ i \notin due) => o.wl[i] = waiting_list[i]
         /\ \A i \in DOMAIN waiting_list :
              (scope # "" /\ waiting_list[i].class_session_id # scope) => o.wl[i] = waiting_list[i]
         /\ \A sid \in DOMAIN class_session :
              LET W == Waiting(waiting_list, sid)
                  calls == Cardinality({i \in due : waiting_list[i].class_session_id = sid})
                  k == Min(calls, Cardinality(W))
              IN \A i \in W :
                   o.wl[i] = IF waiting_list[i].position <= k
                             THEN [waiting_list[i] EXCEPT
                                     !.status = "ASSIGNED", !.assigned_at = now,
                                     !.approval_deadline = now + approval_deadline_hours]
                             ELSE [waiting_list[i] EXCEPT !.position = @ - k]

\* a sweep of one session has expired a hold and promoted its successor, and
\* the overdue hold of another session is as it was
SweepWitness ==
  \E a, b, c \in DOMAIN waiting_list :
    /\ waiting_list[a].status = "EXPIRED"
    /\ waiting_list[b].status = "ASSIGNED"
    /\ waiting_list[b].class_session_id = waiting_list[a].class_session_id
    /\ waiting_list[b].assigned_at > waiting_list[a].approval_deadline
    /\ waiting_list[c].status = "ASSIGNED"
    /\ waiting_list[c].class_session_id # waiting_list[a].class_session_id
    /\ waiting_list[c].approval_deadline < now

\* C16: the sweep called through POST /waiting-list/check-expired answers
\* 200 with expired_count the number of ASSIGNED entries past their deadline,
\* which it has expired, in every state of the store (also with none to
\* expire).
SweepEndpointOk ==
  \A scope \in SessionIds \cup {""} :
    \A o \in check_expired_endpoint(waiting_list, scope, now) :
      LET due == {i \in DOMAIN waiting_list :
                    /\ waiting_list[i].status = "ASSIGNED"
                    /\ waiting_list[i].approval_deadline < now
                    /\ (scope = "" \/ waiting_list[i].class_session_id = scope)}
      IN /\ o.status = 200
         /\ o.expired_count = Cardinality(due)
         /\ \A i \in due : o.wl[i].status = "EXPIRED"

\* C17: cancel_enrollment on a REGISTERED enrollment makes that row CANCELED
\* and promotes: when the session has a WAITING entry, the one at position 1
\* is ASSIGNED when the call returns (nothing changes in an empty queue);
\* for a member without REGISTERED enrollment it raises NotFoundError and
\* changes neither table.
CancelPromotes ==
  \A sid \in SessionIds, mid \in MemberIds :
    \A o \in cancel_enrollment(waiting_list, enrollment, sid, mid, now) :
      LET W == Waiting(waiting_list, sid)
          reg == EnrollmentRow(sid, mid, "REGISTERED")
          can == EnrollmentRow(sid, mid, "CANCELED")
      IN IF CopiesIn(reg, enrollment) = 0
         THEN /\ o.raised = "NotFoundError"
              /\ HttpStatus(o.raised) = 404
              /\ o.wl = waiting_list
              /\ o.e = enrollment
         ELSE /\ o.raised = "none"
              /\ CopiesIn(reg, o.e) = CopiesIn(reg, enrollment) - 1
              /\ CopiesIn(can, o.e) = CopiesIn(can, enrollment) + 1
              /\ BagCardinality(o.e) = BagCardinality(enrollment)
              /\ IF W = {}
                 THEN o.wl = waiting_list
                 ELSE \E h \in W :
                        /\ waiting_list[h].position = 1
                        /\ o.wl[h].status = "ASSIGNED"
                        /\ o.wl[h].approval_deadline = now + approval_deadline_hours
                        /\ \A i \in DOMAIN waiting_list \ {h} :
                             o.wl[i].status = waiting_list[i].status

\* an enrollment was cancelled and the head of the queue holds the spot,
\* with the entry behind it moved up
CancelWitness ==
  /\ \E r \in BagToSet(enrollment) : r.status = "CANCELED"
  /\ \E a, b \in DOMAIN waiting_list :
       /\ waiting_list[a].status = "ASSIGNED"
       /\ waiting_list[b].status = "WAITING"
       /\ waiting_list[b].position = 1
       /\ waiting_list[b].created_at < waiting_list[a].assigned_at
  /\ \A i \in DOMAIN waiting_list : waiting_list[i].status \in {"WAITING", "ASSIGNED"}

\* C18: withdrawing a WAITING or ASSIGNED entry makes it CANCELLED; after an
\* ASSIGNED entry the hold passes to the WAITING entry at position 1; after
\* a WAITING entry the entries behind it move up by one, the positions
\* being 1..N again.
WithdrawContract ==
  \A wid \in DOMAIN waiting_list :
    waiting_list[wid].status \in {"WAITING", "ASSIGNED"} =>
      \A o \in withdraw(waiting_list, wid, now) :
        LET sid == waiting_list[wid].class_session_id
            W == Waiting(waiting_list, sid)
            V == Waiting(o.wl, sid)
        IN /\ o.wl[wid].status = "CANCELLED"
           /\ (waiting_list[wid].status = "ASSIGNED" /\ W # {})
              => \E h \in W : waiting_list[h].position = 1 /\ o.wl[h].status = "ASSIGNED"
           /\ waiting_list[wid].status = "WAITING"
              => /\ \A i \in W \ {wid} :
                      o.wl[i].position =
                        IF waiting_list[i].position > waiting_list[wid].position
                        THEN waiting_list[i].position - 1
                        ELSE waiting_list[i].position
                 /\ {o.wl[i].position : i \in V} = 1..Cardinality(V)

\* C19: add raises NotFoundError (404) only for a missing session or member,
\* AppError (400) only for a session whose status is CLOSED, DuplicateError
\* (409) only for a member with a REGISTERED enrollment or a WAITING or
\* ASSIGNED entry of the session, and succeeds exactly when none of these
\* conditions holds.
AddErrors ==
  \A sid \in AllSessionIds, mid \in MemberIds :
    LET noSession == sid \notin DOMAIN class_session
        closed == ~noSession /\ class_session[sid].status = "CLOSED"
        noMember == mid \notin members
        enrolled == CopiesIn(EnrollmentRow(sid, mid, "REGISTERED"), enrollment) > 0
        queued == \E i \in DOMAIN waiting_list :
                    /\ waiting_list[i].class_session_id = sid
                    /\ waiting_list[i].member_id = mid
                    /\ waiting_list[i].status \in {"WAITING", "ASSIGNED"}
        r == AddCheck(waiting_list, enrollment, sid, mid)
    IN /\ r \in {"ok", "NotFoundError", "AppError", "DuplicateError"}
       /\ r = "ok" <=> ~(noSession \/ closed \/ noMember \/ enrolled \/ queued)
       /\ r = "NotFoundError" => (noSession \/ noMember) /\ HttpStatus(r) = 404
       /\ r = "AppError" => closed /\ HttpStatus(r) = 400
       /\ r = "DuplicateError" => (enrolled \/ queued) /\ HttpStatus(r) = 409

\* one state in which each outcome occurs: an enrolled member, a member
\* holding a spot, a closed session, unknown ids, and a member free to queue
AddErrorsWitness ==
  \E a, b, c \in members :
    /\ CopiesIn(EnrollmentRow("s1", a, "REGISTERED"), enrollment) = 1
    /\ AddCheck(waiting_list, enrollment, "s1", a) = "DuplicateError"
    /\ \E i \in DOMAIN waiting_list :
         /\ waiting_list[i].class_session_id = "s1"
         /\ waiting_list[i].member_id = b
         /\ waiting_list[i].status = "ASSIGNED"
    /\ AddCheck(waiting_list, enrollment, "s1", b) = "DuplicateError"
    /\ AddCheck(waiting_list, enrollment, "s1", c) = "ok"
    /\ AddCheck(waiting_list, enrollment, "s3", c) = "AppError"
    /\ AddCheck(waiting_list, enrollment, "s9", c) = "NotFoundError"
    /\ AddCheck(waiting_list, enrollment, "s1", "m9") = "NotFoundError"

\* C20: confirm raises NotFoundError (404) for an id of no entry and AppError
\* (400) for an entry that is not ASSIGNED; in both cases it creates no
\* enrollment and changes no entry; a confirmed entry is not ASSIGNED any
\* more, so a second confirm of it fails and adds no second enrollment.
ConfirmErrors ==
  /\ [](\A wid \in 1..(MaxWaiting + 1) :
          LET r == ConfirmCheck(waiting_list, wid, now)
          IN IF wid \notin DOMAIN waiting_list
             THEN r = "NotFoundError" /\ HttpStatus(ErrorClass(r)) = 404
             ELSE waiting_list[wid].status # "ASSIGNED"
                  => r = "AppError:not_assigned" /\ HttpStatus(ErrorClass(r)) = 400)
  /\ [][\A wid \in 1..(MaxWaiting + 1) :
          (/\ IF wid \in DOMAIN waiting_list
              THEN waiting_list[wid].status # "ASSIGNED"
              ELSE TRUE
           /\ ConfirmAssignment(wid))
          => UNCHANGED <<waiting_list, enrollment>>
      ]_vars
  /\ [][\A wid \in DOMAIN waiting_list :
          (waiting_list[wid].status = "ASSIGNED" /\ waiting_list'[wid].status = "CONFIRMED")
          => ConfirmCheck(waiting_list', wid, now') = "AppError:not_assigned"
      ]_vars

\* entries in the three other statuses the code writes, the confirmed one
\* with its single enrollment, and an id of no entry
ConfirmErrorsWitness ==
  /\ Len(waiting_list) <= MaxWaiting
  /\ \E a, b, c \in DOMAIN waiting_list :
       /\ waiting_list[a].status = "CONFIRMED"
       /\ waiting_list[b].status = "EXPIRED"
       /\ waiting_list[c].status = "WAITING"
       /\ CopiesIn(EnrollmentRow(waiting_list[a].class_session_id,
                                 waiting_list[a].member_id, "REGISTERED"), enrollment) = 1
       /\ \A r \in BagToSet(enrollment) :
            r.status = "REGISTERED" => r.member_id = waiting_list[a].member_id

(* C21: add and promote persist their writes in one commit, and a failure  *)
(* before it leaves the store as it was.  While an add or a promote is at  *)
(* work the stored waiting list is the one it was called on; a step that   *)
(* changes the stored list puts in place the whole result of the method    *)
(* (the new entry or the stamped entry with every shifted position); a     *)
(* request that ends raising leaves the list it was called on; and the     *)
(* WAITING positions of the stored list are 1..n at all times.             *)
FailureAtomicity ==
  /\ [](txn.op \in {"add", "promote"} => waiting_list = txn.w)
  /\ [](\A sid \in SessionIds :
          {waiting_list[i].position : i \in Waiting(waiting_list, sid)}
            = 1..Cardinality(Waiting(waiting_list, sid)))
  /\ [][waiting_list' # waiting_list =>
          \/ /\ txn.op = "add"
             /\ \E o \in AddOutcomes(waiting_list, txn.sid, txn.mid, txn.clock) :
                  waiting_list' = o.wl
          \/ /\ txn.op = "promote"
             /\ \E o \in promote_from_queue(waiting_list, txn.sid, txn.clock) :
                  waiting_list' = o.wl]_vars
  /\ [][txn.op \in {"add", "promote"} /\ txn'.pc = "raised" =>
          waiting_list' = txn.w]_vars

\* a request has raised after it shifted a row and before it wrote the rest:
\* its own copy of the queue has a gap, the stored list is the one it read
FailureWitness ==
  /\ txn.op = "idle" /\ txn.pc = "raised"
  /\ txn.local # txn.w
  /\ txn.local # txn.goal
  /\ \E sid \in SessionIds :
       {txn.local[i].position : i \in Waiting(txn.local, sid)}
         # 1..Cardinality(Waiting(txn.local, sid))
  /\ waiting_list = txn.w

(* C22: the stamps of a hold.  A step that turns a WAITING entry into an   *)
(* ASSIGNED one stamps it with assigned_at = now and approval_deadline =   *)
(* now + 24 hours; in every state a WAITING entry has assigned_at and      *)
(* approval_deadline null, and an ASSIGNED entry has an approval_deadline  *)
(* that is not null and equals its assigned_at plus the 24 hours.          *)
HoldStamps ==
  /\ [](\A i \in DOMAIN waiting_list :
          /\ waiting_list[i].status = "WAITING" =>
               /\ waiting_list[i].assigned_at = None
               /\ waiting_list[i].approval_deadline = None
          /\ waiting_list[i].status = "ASSIGNED" =>
               /\ waiting_list[i].assigned_at # None
               /\ waiting_list[i].approval_deadline # None
               /\ waiting_list[i].approval_deadline
                    = waiting_list[i].assigned_at + approval_deadline_hours)
  /\ [][\A i \in DOMAIN waiting_list :
          (waiting_list[i].status = "WAITING" /\ waiting_list'[i].status = "ASSIGNED")
            => /\ waiting_list'[i].assigned_at = now
               /\ waiting_list'[i].approval_deadline = now + approval_deadline_hours]_vars

\* a hold given after time has passed, next to an entry still waiting and
\* an entry whose hold has lapsed
HoldStampsWitness ==
  \E i, j, k \in DOMAIN waiting_list :
    /\ waiting_list[i].status = "ASSIGNED"
    /\ waiting_list[i].assigned_at = TickHours
    /\ waiting_list[i].approval_deadline = TickHours + approval_deadline_hours
    /\ waiting_list[j].status = "WAITING"
    /\ waiting_list[k].status = "EXPIRED"

(* C23: bounded staleness.  With time advancing and the sweep run again    *)
(* and again, every ASSIGNED entry eventually leaves ASSIGNED, for         *)
(* CONFIRMED or EXPIRED.  The clock of the model stops at MaxNow, so the   *)
(* entries followed are those whose deadline the clock can pass.           *)
BoundedStaleness ==
  \A i \in 1..MaxWaiting :
    (/\ i \in DOMAIN waiting_list
     /\ waiting_list[i].status = "ASSIGNED"
     /\ waiting_list[i].approval_deadline < MaxNow)
    ~> (/\ i \in DOMAIN waiting_list
        /\ waiting_list[i].status \in {"CONFIRMED", "EXPIRED"})

\* a hold that ran out and was reaped: the entry is EXPIRED, the clock is
\* past its deadline and the next entry holds the place
StalenessWitness ==
  \E i, j \in DOMAIN waiting_list :
    /\ waiting_list[i].status = "EXPIRED"
    /\ waiting_list[i].approval_deadline < now
    /\ waiting_list[i].approval_deadline < MaxNow
    /\ waiting_list[j].status = "ASSIGNED"
    /\ waiting_list[j].assigned_at = now

(* C24: enrollment on a full session delegates to the queue.  For an       *)
(* existing session and member without a REGISTERED enrollment there:      *)
(* when the REGISTERED count has reached the capacity, enroll_member       *)
(* creates no enrollment, leaves the waiting list alone and raises add's   *)
(* error when add refuses, and otherwise appends one WAITING entry of the  *)
(* member and raises an error that carries the position of that entry;     *)
(* below capacity it adds exactly one REGISTERED enrollment of the member   *)
(* and no waiting-list entry, without an error.                            *)
EnrollDelegates ==
  \A sid \in DOMAIN class_session, mid \in members :
    RegisteredFor(enrollment, sid, mid) = 0 =>
      \A o \in enroll_member(waiting_list, enrollment, sid, mid, now) :
        IF BagCardinality(Registered(enrollment, sid)) >= class_session[sid].capacity
        THEN /\ o.e = enrollment
             /\ IF AddCheck(waiting_list, enrollment, sid, mid) # "ok"
                THEN /\ o.wl = waiting_list
                     /\ o.raised = AddCheck(waiting_list, enrollment, sid, mid)
                ELSE /\ Len(o.wl) = Len(waiting_list) + 1
                     /\ o.wl[Len(o.wl)].class_session_id = sid
                     /\ o.wl[Len(o.wl)].member_id = mid
                     /\ o.wl[Len(o.wl)].status = "WAITING"
                     /\ o.raised = "AppError"
                     /\ o.position = o.wl[Len(o.wl)].position
        ELSE /\ o.wl = waiting_list
             /\ o.e = enrollment (+) SetToBag({EnrollmentRow(sid, mid, "REGISTERED")})
             /\ o.raised = "none"

(* C27: a member never has more than one ACTIVE subscription, whatever the *)
(* sequence of assign_subscription, freeze_subscription and                *)
(* unfreeze_subscription.                                                  *)
OneActiveSubscription ==
  \A mid \in members :
    Cardinality({i \in DOMAIN subscription :
                   /\ subscription[i].member_id = mid
                   /\ subscription[i].status = "ACTIVE"}) <= 1

(* C25: the priority score is the base of the member's tier plus the whole *)
(* hours elapsed since the entry was enqueued: base 1000 when the member's *)
(* active subscription is on a VIP plan, 100 for any other active          *)
(* subscription, 0 without an ACTIVE subscription; and for one member and  *)
(* one enqueue time a later clock never gives a lower score.  Elapsed time *)
(* is taken in seconds, at the hour marks and a second before and after.   *)
PriorityScoreFormula ==
  \A mid \in MemberIds :
    LET tiers == {subscription[i].plan_type :
                    i \in {j \in DOMAIN subscription :
                             /\ subscription[j].member_id = mid
                             /\ subscription[j].status = "ACTIVE"}}
        base == IF "VIP" \in tiers THEN 1000 ELSE IF tiers # {} THEN 100 ELSE 0
        elapsed == {h * 3600 + d : h \in 0..MaxElapsedHours, d \in {0, 1, 3599}}
        score(t) == {b + waiting_time_bonus(t) : b \in base_score(mid)}
    IN \A t1 \in elapsed :
         \A s1 \in score(t1) :
           /\ \E h \in 0..(MaxElapsedHours + 1) :
                /\ h * 3600 <= t1 /\ t1 < (h + 1) * 3600
                /\ s1 = base + h
           /\ \A t2 \in elapsed :
                t1 <= t2 => \A s2 \in score(t2) : s1 <= s2

CapacityRespected ==
  \A sid \in DOMAIN class_session :
    BagCardinality([r \in {x \in BagToSet(enrollment) :
                             /\ x.class_session_id = sid
                             /\ x.status = "REGISTERED"} |-> enrollment[r]])
      <= class_session[sid].capacity

(* C29: at most one REGISTERED enrollment per session and member, whatever *)
(* the sequence of enroll, add, promote, confirm and cancel-enrollment     *)
(* operations, run one at a time.                                          *)
OneEnrollmentPerMember ==
  \A sid \in DOMAIN class_session, mid \in members :
    CopiesIn([class_session_id |-> sid, member_id |-> mid, status |-> "REGISTERED"],
             enrollment) <= 1

(* C30: the stored score is the tier base and never ages.  Every stored    *)
(* priority_score is 0, 100 or 1000; a new entry is created at the time of *)
(* the call with the base of its member's tier as score; no step changes   *)
(* the priority_score of an existing entry; and no step, the passing of    *)
(* time included, changes which of two entries that stay WAITING in a      *)
(* session stands before the other.                                        *)
StoredScoreFixed ==
  /\ [](\A i \in DOMAIN waiting_list :
          waiting_list[i].priority_score \in {0, 100, 1000})
  /\ [][/\ \A i \in DOMAIN waiting_list :
             /\ i \in DOMAIN waiting_list'
             /\ waiting_list'[i].priority_score = waiting_list[i].priority_score
        /\ \A i \in DOMAIN waiting_list' \ DOMAIN waiting_list :
             /\ waiting_list'[i].created_at = now
             /\ waiting_list'[i].priority_score \in
                  base_score(waiting_list'[i].member_id)
        /\ \A i, j \in DOMAIN waiting_list :
             (/\ waiting_list[i].class_session_id = waiting_list[j].class_session_id
              /\ waiting_list[i].status = "WAITING"
              /\ waiting_list[j].status = "WAITING"
              /\ waiting_list'[i].status = "WAITING"
              /\ waiting_list'[j].status = "WAITING")
             => (waiting_list[i].position < waiting_list[j].position
                   <=> waiting_list'[i].position < waiting_list'[j].position)
       ]_vars

\* after a day or more in the queue an entry without a subscription still
\* has score 0 and stands behind an entry of score 100 that has just arrived
StoredScoreWitness ==
  \E i, j \in DOMAIN waiting_list :
    /\ waiting_list[i].status = "WAITING"
    /\ waiting_list[j].status = "WAITING"
    /\ waiting_list[i].class_session_id = waiting_list[j].class_session_id
    /\ waiting_list[i].created_at = 0
    /\ waiting_list[j].created_at = now
    /\ now >= TickHours
    /\ waiting_list[i].priority_score = 0
    /\ waiting_list[j].priority_score = 100
    /\ waiting_list[j].position < waiting_list[i].position

====
